---- MODULE Spec2Model ----
(***************************************************************************)
(* A model of xt::xfunction (include/xtensor/xfunction.hpp): the lazy      *)
(* elementwise expression node, its shape cache, its flat iterator and its *)
(* dimensional stepper.                                                    *)
(*                                                                         *)
(* The operands (containers, rank-0 scalars) are external to the file: an  *)
(* operand is described by its shape, its row-major storage and the        *)
(* operations of the operand interface, with the standard broadcasting     *)
(* rule (trailing alignment, extent 1 stretches).                          *)
(***************************************************************************)
EXTENDS Integers, Sequences, FiniteSets, TLC

(***************************************************************************)
(* Bounds of the model.                                                    *)
(***************************************************************************)
\* number of operands of the node (sizeof...(CT))
Arity == 2
\* largest rank of an operand
MaxRank == 2
\* largest extent of one dimension of an operand
MaxExtent == 2
\* cap on the number of times shape() is counted
MaxCalls == 2
\* largest offset of one += or -= of a flat iterator, or of one step(dim, n)
MaxStep == 2

\* the number of lanes of a batch
BatchWidth == 2

\* the nesting depth of nodes in a type pack
TraitDepth == 2

\* the number of threads that share a node, and of calls each one makes
NThreads == 2
ThreadCalls == 2

OpIds == 1..Arity

Max2(a, b) == IF a >= b THEN a ELSE b

\* the shapes an operand may have: every extent is at least 1
Shapes == UNION {[1..r -> 1..MaxExtent] : r \in 0..MaxRank}

\* the shape sequences a caller may hand to broadcast_shape: 0 marks a
\* dimension no operand has resolved yet
OutShapes == UNION {[1..r -> 0..MaxExtent] : r \in 0..MaxRank}

\* an operand: its shape, and whether it is the rank-0 scalar wrapper
\* (xscalar), whose flat iterator is a placeholder
Operands == {o \in [shape : Shapes, scalar : BOOLEAN] : o.scalar => o.shape = <<>>}

Zeros(n) == [k \in 1..n |-> 0]

(***************************************************************************)
(* The operand interface consumed by the node.                             *)
(***************************************************************************)
\* e.dimension()
operand_dimension(o) == Len(o.shape)

\* e.broadcast_shape(out): merges the operand's shape into out, aligned on
\* the trailing dimension; reports whether the merge was trivial; ok is
\* FALSE when the shapes are incompatible (the operand throws)
operand_broadcast_shape(o, out) ==
    LET input == o.shape
        off   == Len(out) - Len(input)
        In(k) == input[k - off]
    IN  IF off < 0
        THEN [shape |-> out, trivial |-> FALSE, ok |-> FALSE]
        ELSE [shape |-> [k \in 1..Len(out) |->
                            IF k <= off THEN out[k]
                            ELSE IF out[k] = 0 \/ out[k] = 1 THEN In(k)
                            ELSE out[k]],
              trivial |-> /\ off = 0
                          /\ \A k \in (off + 1)..Len(out) :
                                /\ (out[k] = 1 => In(k) = 1)
                                /\ (out[k] > 1 => In(k) # 1),
              ok |-> \A k \in (off + 1)..Len(out) :
                        (out[k] > 1 /\ In(k) # 1) => In(k) = out[k]]

\* the row-major strides of a shape; a dimension of extent 1 has stride 0
RECURSIVE compute_size(_)
compute_size(s) == IF Len(s) = 0 THEN 1 ELSE Head(s) * compute_size(Tail(s))

Strides(s) ==
    [j \in 1..Len(s) |->
        IF s[j] = 1 THEN 0 ELSE compute_size(SubSeq(s, j + 1, Len(s)))]

RECURSIVE Dot(_, _)
Dot(a, b) == IF Len(a) = 0 THEN 0 ELSE Head(a) * Head(b) + Dot(Tail(a), Tail(b))

\* the largest number of elements of an operand, and the weight that keeps
\* the values of different operands apart in a sum
MaxSize == compute_size([k \in 1..MaxRank |-> MaxExtent])
Weight == MaxSize + 1

\* the element stored at flat offset k of operand i: offsets and operands
\* can both be read back from a sum of one element per operand
Value(i, k) == (k + 1) * Weight ^ (i - 1)

\* what reading operand i at flat offset k can yield: the element, or, past
\* the operand's storage (undefined behaviour), garbage (0 is no element)
\* or the value of an element
operand_read(i, o, k) ==
    IF 0 <= k /\ k < compute_size(o.shape)
    THEN {Value(i, k)}
    ELSE {0, Value(i, 0)}

\* the operand's own multi-index for the node's index args: the leading
\* indices the operand has no dimension for are dropped
operand_index(o, args) ==
    [j \in 1..Len(o.shape) |-> args[j + (Len(args) - Len(o.shape))]]

\* e(args...), e.unchecked(args...), e.element(first, last): the flat offset
\* is the dot product of the indices and the strides, so a dimension of
\* extent 1 is stretched
operand_offset(o, args) == Dot(operand_index(o, args), Strides(o.shape))

operand_in_range(o, args) ==
    /\ Len(args) >= Len(o.shape)
    /\ \A j \in 1..Len(o.shape) :
          o.shape[j] = 1 \/ operand_index(o, args)[j] < o.shape[j]

operand_access(i, o, args) ==
    IF operand_in_range(o, args)
    THEN operand_read(i, o, operand_offset(o, args))
    ELSE operand_read(i, o, MaxSize)

\* e.data_element(i)
operand_data_element(i, o, k) == operand_read(i, o, k)

\* e.has_linear_assign(strides)
operand_has_linear_assign(o, strides) == o.scalar \/ strides = Strides(o.shape)

\* e.layout(), and compute_layout over the operands' layouts
operand_layout(o) == IF o.scalar THEN "any" ELSE "row_major"

compute_layout2(a, b) ==
    IF a = "any" THEN b
    ELSE IF b = "any" \/ a = b THEN a
    ELSE "dynamic"

\* check_index(shape, args...): the index count against the rank and each
\* index against its dimension
check_index(s, args) ==
    /\ Len(args) = Len(s)
    /\ \A k \in 1..Len(s) : args[k] < s[k]

(***************************************************************************)
(* The functor m_f: addition.                                              *)
(***************************************************************************)
\* m_f applied to one value per operand, for every choice of the values
\* the reads can yield
RECURSIVE functor_from(_, _)
functor_from(reads, i) ==
    IF i > Arity THEN {0}
    ELSE {a + b : a \in reads[i], b \in functor_from(reads, i + 1)}

functor(reads) == functor_from(reads, 1)

(***************************************************************************)
(* xfunction: shape and dimension.                                         *)
(***************************************************************************)
\* accumulate(max(d, e.dimension()), 0, m_e)
RECURSIVE dimension_fold(_, _, _)
dimension_fold(m_e, i, d) ==
    IF i > Arity THEN d
    ELSE dimension_fold(m_e, i + 1, Max2(d, operand_dimension(m_e[i])))

compute_dimension(m_e) == dimension_fold(m_e, 1, 0)

\* broadcast_fold with the result of the last operand alone: "&& b" lost
RECURSIVE broadcast_fold_last(_, _, _)
broadcast_fold_last(m_e, i, acc) ==
    IF i > Arity \/ ~acc.ok THEN acc
    ELSE LET r == operand_broadcast_shape(m_e[i], acc.shape)
         IN  broadcast_fold_last(m_e, i + 1,
                 [shape   |-> r.shape,
                  result  |-> r.trivial,
                  ok      |-> r.ok,
                  invoked |-> Append(acc.invoked, i)])

\* a broadcast_fold that stops at the first non-trivial operand
RECURSIVE broadcast_fold_short(_, _, _)
broadcast_fold_short(m_e, i, acc) ==
    IF i > Arity \/ ~acc.ok \/ ~acc.result THEN acc
    ELSE LET r == operand_broadcast_shape(m_e[i], acc.shape)
         IN  broadcast_fold_short(m_e, i + 1,
                 [shape   |-> r.shape,
                  result  |-> r.trivial /\ acc.result,
                  ok      |-> r.ok,
                  invoked |-> Append(acc.invoked, i)])

\* accumulate(e.broadcast_shape(shape) && b, true, m_e): the operand is
\* called before b is looked at, so every operand is called; an operand
\* that throws ends the fold
RECURSIVE broadcast_fold(_, _, _)
broadcast_fold(m_e, i, acc) ==
    IF i > Arity \/ ~acc.ok THEN acc
    ELSE LET r == operand_broadcast_shape(m_e[i], acc.shape)
         IN  broadcast_fold(m_e, i + 1,
                 [shape   |-> r.shape,
                  result  |-> r.trivial /\ acc.result,
                  ok      |-> r.ok,
                  invoked |-> Append(acc.invoked, i)])

\* broadcast_shape that never looks at the cache
broadcast_shape_recompute(cache, m_e, out, reuse_cache) ==
    broadcast_fold(m_e, 1,
        [shape |-> out, result |-> TRUE, ok |-> TRUE, invoked |-> <<>>])

\* xfunction::broadcast_shape(shape, reuse_cache)
broadcast_shape(cache, m_e, out, reuse_cache) ==
    IF cache.is_initialized /\ reuse_cache
    THEN [shape   |-> [k \in 1..Len(out) |->
                          IF k <= Len(cache.shape) THEN cache.shape[k] ELSE out[k]],
          result  |-> cache.is_trivial,
          ok      |-> TRUE,
          invoked |-> <<>>]
    ELSE broadcast_fold(m_e, 1,
             [shape |-> out, result |-> TRUE, ok |-> TRUE, invoked |-> <<>>])

\* xfunction::compute_cached_shape
compute_cached_shape(cache, m_e) ==
    LET r == broadcast_shape(cache, m_e, Zeros(compute_dimension(m_e)), FALSE)
    IN  [cache   |-> [shape |-> r.shape, is_trivial |-> r.result,
                      is_initialized |-> TRUE],
         invoked |-> r.invoked]

\* shape that fills the cache on every call
shape_uncached(cache, m_e) ==
    LET r == compute_cached_shape(cache, m_e)
    IN  [cache |-> r.cache, invoked |-> r.invoked, value |-> r.cache.shape]

\* xfunction::shape: the cache after the call, the operands called, and
\* the shape returned
shape(cache, m_e) ==
    LET r == IF ~cache.is_initialized
             THEN compute_cached_shape(cache, m_e)
             ELSE [cache |-> cache, invoked |-> <<>>]
    IN  [cache |-> r.cache, invoked |-> r.invoked, value |-> r.cache.shape]

\* dimension that fills the cache on its first call
dimension_filling(cache, m_e) ==
    LET r == shape(cache, m_e)
    IN  [cache |-> r.cache, value |-> Len(r.value)]

\* dimension that always returns the length of the cached shape
dimension_stale(cache, m_e) == [cache |-> cache, value |-> Len(cache.shape)]

\* xfunction::dimension: the cache after the call (the cache is read, never
\* filled) and the rank returned
dimension(cache, m_e) ==
    [cache |-> cache,
     value |-> IF cache.is_initialized THEN Len(cache.shape)
               ELSE compute_dimension(m_e)]

\* a size that is the rank of the shape
size_rank(cache, m_e) ==
    LET r == shape(cache, m_e)
    IN  [cache |-> r.cache, invoked |-> r.invoked, value |-> Len(r.value)]

\* xfunction::size
size(cache, m_e) ==
    LET r == shape(cache, m_e)
    IN  [cache |-> r.cache, invoked |-> r.invoked, value |-> compute_size(r.value)]

\* accumulate(b && e.has_linear_assign(strides), true, m_e)
RECURSIVE linear_assign_fold(_, _, _, _)
linear_assign_fold(m_e, strides, i, b) ==
    IF i > Arity THEN b
    ELSE linear_assign_fold(m_e, strides, i + 1,
                            b /\ operand_has_linear_assign(m_e[i], strides))

\* the answer of the last operand alone
has_linear_assign_last(m_e, strides) ==
    operand_has_linear_assign(m_e[Arity], strides)

\* xfunction::has_linear_assign
has_linear_assign(m_e, strides) == linear_assign_fold(m_e, strides, 1, TRUE)

\* xfunction::layout_impl: compute_layout(std::get<I>(m_e).layout()...)
RECURSIVE layout_fold(_, _, _)
layout_fold(m_e, i, l) ==
    IF i > Arity THEN l
    ELSE layout_fold(m_e, i + 1, compute_layout2(l, operand_layout(m_e[i])))

layout_impl(m_e) == layout_fold(m_e, 1, "any")

(***************************************************************************)
(* xfunction: element access.                                              *)
(***************************************************************************)
\* e.unchecked(args...): no broadcasting; the indices must match the
\* operand's own shape, anything else is undefined
operand_unchecked(i, o, args) ==
    IF Len(args) = Len(o.shape) /\ \A j \in 1..Len(args) : args[j] < o.shape[j]
    THEN operand_read(i, o, operand_offset(o, args))
    ELSE operand_read(i, o, MaxSize)

\* access_impl that reads the operands through unchecked()
access_impl_unchecked(cache, m_e, validating, args) ==
    LET r      == IF validating THEN shape(cache, m_e)
                  ELSE [cache |-> cache, invoked |-> <<>>, value |-> <<>>]
        passes == validating => check_index(r.value, args)
    IN  [cache   |-> r.cache,
         invoked |-> r.invoked,
         entered |-> IF ~validating THEN 0 ELSE IF passes THEN 2 ELSE 1,
         outcome |-> IF passes THEN "value" ELSE "error",
         values  |-> IF passes
                     THEN functor([i \in OpIds |-> operand_unchecked(i, m_e[i], args)])
                     ELSE {}]

\* access_impl that recomputes the cached shape instead of calling shape()
access_impl_refill(cache, m_e, validating, args) ==
    LET r      == IF validating
                  THEN [cache   |-> compute_cached_shape(cache, m_e).cache,
                        invoked |-> compute_cached_shape(cache, m_e).invoked,
                        value   |-> compute_cached_shape(cache, m_e).cache.shape]
                  ELSE [cache |-> cache, invoked |-> <<>>, value |-> <<>>]
        passes == validating => check_index(r.value, args)
    IN  [cache   |-> r.cache,
         invoked |-> r.invoked,
         entered |-> IF ~validating THEN 0 ELSE IF passes THEN 2 ELSE 1,
         outcome |-> IF passes THEN "value" ELSE "error",
         values  |-> IF passes
                     THEN functor([i \in OpIds |-> operand_access(i, m_e[i], args)])
                     ELSE {}]

\* an access_impl that checks the indices in every build
access_impl_always(cache, m_e, validating, args) ==
    LET r      == shape(cache, m_e)
        passes == check_index(r.value, args)
    IN  [cache   |-> r.cache,
         invoked |-> r.invoked,
         entered |-> IF passes THEN 2 ELSE 1,
         outcome |-> IF passes THEN "value" ELSE "error",
         values  |-> IF passes
                     THEN functor([i \in OpIds |-> operand_access(i, m_e[i], args)])
                     ELSE {}]

\* xfunction::access_impl. In a validation-enabled build XTENSOR_TRY and
\* XTENSOR_CHECK_DIMENSION each evaluate shape(); a failed check throws.
\* entered is how often shape() was entered.
access_impl(cache, m_e, validating, args) ==
    LET r      == IF validating THEN shape(cache, m_e)
                  ELSE [cache |-> cache, invoked |-> <<>>, value |-> <<>>]
        passes == validating => check_index(r.value, args)
    IN  [cache   |-> r.cache,
         invoked |-> r.invoked,
         entered |-> IF ~validating THEN 0 ELSE IF passes THEN 2 ELSE 1,
         outcome |-> IF passes THEN "value" ELSE "error",
         values  |-> IF passes
                     THEN functor([i \in OpIds |-> operand_access(i, m_e[i], args)])
                     ELSE {}]

\* xfunction::unchecked_impl
unchecked_impl(m_e, args) ==
    functor([i \in OpIds |-> operand_unchecked(i, m_e[i], args)])

\* element_access_impl that checks the index in every build
element_access_impl_always(cache, m_e, validating, args) ==
    LET r      == shape(cache, m_e)
        passes == check_index(r.value, args)
    IN  [cache   |-> r.cache,
         invoked |-> r.invoked,
         entered |-> 1,
         outcome |-> IF passes THEN "value" ELSE "error",
         values  |-> IF passes
                     THEN functor([i \in OpIds |-> operand_access(i, m_e[i], args)])
                     ELSE {}]

\* xfunction::element_access_impl
element_access_impl(cache, m_e, validating, args) ==
    LET r      == IF validating THEN shape(cache, m_e)
                  ELSE [cache |-> cache, invoked |-> <<>>, value |-> <<>>]
        passes == validating => check_index(r.value, args)
    IN  [cache   |-> r.cache,
         invoked |-> r.invoked,
         entered |-> IF validating THEN 1 ELSE 0,
         outcome |-> IF passes THEN "value" ELSE "error",
         values  |-> IF passes
                     THEN functor([i \in OpIds |-> operand_access(i, m_e[i], args)])
                     ELSE {}]

\* xfunction::only_scalar: every operand is the scalar wrapper
only_scalar(m_e) == \A i \in OpIds : m_e[i].scalar

\* xfunction::operator value_type: operator()() with no index
conversion(cache, m_e, validating) == access_impl(cache, m_e, validating, <<>>)

\* xfunction::data_element_impl
data_element_impl(m_e, k) ==
    functor([i \in OpIds |-> operand_data_element(i, m_e[i], k)])

\* the operands of a node are broadcast-compatible
Compatible(m_e) ==
    broadcast_fold(m_e, 1, [shape |-> Zeros(compute_dimension(m_e)),
                            result |-> TRUE, ok |-> TRUE, invoked |-> <<>>]).ok

(***************************************************************************)
(* xfunction_iterator: the flat iterator.                                  *)
(***************************************************************************)
\* detail::linear_begin(e), detail::linear_end(e): a cursor is an offset
\* into the operand's storage; the scalar wrapper has a placeholder
operand_linear_begin(o) == 0
operand_linear_end(o) == IF o.scalar THEN 0 ELSE compute_size(o.shape)

\* it += n on an operand's cursor: the placeholder ignores it
cursor_advance(o, c, n) == IF o.scalar THEN c ELSE c + n

\* a flat iterator whose first cursor starts one element late
storage_cbegin_late(m_e) ==
    [i \in OpIds |-> IF i = 1 THEN 1 ELSE operand_linear_begin(m_e[i])]

\* xfunction::storage_cbegin, storage_cend: build_iterator over m_e
storage_cbegin(m_e) == [i \in OpIds |-> operand_linear_begin(m_e[i])]
storage_cend(m_e) == [i \in OpIds |-> operand_linear_end(m_e[i])]

\* xfunction_iterator::operator++, operator--, operator+=, operator-=
iterator_increment(m_e, m_it) ==
    [i \in OpIds |-> cursor_advance(m_e[i], m_it[i], 1)]

\* a decrement that reaches the first cursor only
iterator_decrement_first(m_e, m_it) ==
    [i \in OpIds |-> IF i = 1 THEN cursor_advance(m_e[i], m_it[i], -1) ELSE m_it[i]]

iterator_decrement(m_e, m_it) ==
    [i \in OpIds |-> cursor_advance(m_e[i], m_it[i], -1)]

iterator_add(m_e, m_it, n) ==
    [i \in OpIds |-> cursor_advance(m_e[i], m_it[i], n)]

iterator_subtract(m_e, m_it, n) ==
    [i \in OpIds |-> cursor_advance(m_e[i], m_it[i], -n)]

\* xfunction_iterator::deref_impl
iterator_deref(m_e, m_it) ==
    functor([i \in OpIds |-> operand_read(i, m_e[i], m_it[i])])

\* the distance of two cursors of one operand; placeholders are all alike
cursor_distance(o, a, b) == a - b

\* accumulate(max, difference_type(0), diff): the fold starts from 0
RECURSIVE max_diff_fold(_, _, _, _, _)
max_diff_fold(m_e, lhs, rhs, i, n) ==
    IF i > Arity THEN n
    ELSE max_diff_fold(m_e, lhs, rhs, i + 1,
                       Max2(n, cursor_distance(m_e[i], lhs[i], rhs[i])))

\* xfunction_iterator::tuple_max_diff
tuple_max_diff(m_e, lhs, rhs) == max_diff_fold(m_e, lhs, rhs, 1, 0)

\* xfunction_iterator::operator-
iterator_minus(m_e, lhs, rhs) == tuple_max_diff(m_e, lhs, rhs)

\* find_if<is_not_xdummy_iterator, data_type>: the position of the first
\* cursor that is not a placeholder, the tuple size when there is none;
\* positions count from 1 here
first_genuine(m_e) ==
    IF \E i \in OpIds : ~m_e[i].scalar
    THEN CHOOSE i \in OpIds :
             ~m_e[i].scalar /\ \A j \in OpIds : ~m_e[j].scalar => i <= j
    ELSE Arity + 1

\* "index = (temp == tuple_size) ? 0 : temp"
reference_index(m_e) ==
    IF first_genuine(m_e) = Arity + 1 THEN 1 ELSE first_genuine(m_e)

\* an equality that compares every cursor
iterator_equal_all(m_e, lhs, rhs) == \A i \in OpIds : lhs[i] = rhs[i]

\* xfunction_iterator::equal, less_than
iterator_equal(m_e, lhs, rhs) ==
    lhs[reference_index(m_e)] = rhs[reference_index(m_e)]

iterator_less_than(m_e, lhs, rhs) ==
    lhs[reference_index(m_e)] < rhs[reference_index(m_e)]

(***************************************************************************)
(* xfunction_stepper: the dimensional stepper.                             *)
(***************************************************************************)
Layouts == {"row_major", "column_major"}

\* An operand's sub-stepper: the operand's own multi-index, and the number
\* of leading dimensions of the traversed shape the operand does not have.
\* e.stepper_begin(shape)
operand_stepper_begin(o, shp) ==
    [idx |-> Zeros(Len(o.shape)), offset |-> Len(shp) - Len(o.shape)]

\* the operand's own axis for the node's axis dim
OwnAxis(st, dim) == dim - st.offset + 1

\* whether a movement along the node's axis dim moves the operand: it has
\* the axis and its extent along it is not 1
Moves(o, st, dim) == dim >= st.offset /\ o.shape[OwnAxis(st, dim)] # 1

\* st.step(dim), st.step_back(dim)
operand_step(o, st, dim) ==
    IF Moves(o, st, dim)
    THEN [st EXCEPT !.idx[OwnAxis(st, dim)] = @ + 1]
    ELSE st

operand_step_back(o, st, dim) ==
    IF Moves(o, st, dim)
    THEN [st EXCEPT !.idx[OwnAxis(st, dim)] = @ - 1]
    ELSE st

\* st.step(dim, n), st.step_back(dim, n)
operand_step_n(o, st, dim, n) ==
    IF Moves(o, st, dim)
    THEN [st EXCEPT !.idx[OwnAxis(st, dim)] = @ + n]
    ELSE st

operand_step_back_n(o, st, dim, n) ==
    IF Moves(o, st, dim)
    THEN [st EXCEPT !.idx[OwnAxis(st, dim)] = @ - n]
    ELSE st

\* st.reset(dim), st.reset_back(dim): the axis at its start, at its end
operand_reset(o, st, dim) ==
    IF Moves(o, st, dim)
    THEN [st EXCEPT !.idx[OwnAxis(st, dim)] = 0]
    ELSE st

operand_reset_back(o, st, dim) ==
    IF Moves(o, st, dim)
    THEN [st EXCEPT !.idx[OwnAxis(st, dim)] = o.shape[OwnAxis(st, dim)] - 1]
    ELSE st

\* the multi-index one past the last element of shape s: the last element,
\* moved one step along the axis fastest (none when fastest is 0); an axis
\* of extent 1 has stride 0 and stays at 0
EndIndexAt(s, fastest) ==
    [j \in 1..Len(s) |->
        IF s[j] = 1 THEN 0 ELSE IF j = fastest THEN s[j] ELSE s[j] - 1]

\* one past the last element of shape s in the linear order l
EndIndex(s, l) == EndIndexAt(s, IF l = "row_major" THEN Len(s) ELSE 1)

\* st.to_begin(), st.to_end(l): in column-major order the fastest axis is
\* the first axis of the traversed shape, which an operand of lower rank
\* does not have
operand_to_begin(o, st) == [st EXCEPT !.idx = Zeros(Len(o.shape))]
operand_to_end(o, st, l) ==
    [st EXCEPT !.idx =
        EndIndexAt(o.shape, IF l = "row_major" THEN Len(o.shape)
                            ELSE IF st.offset = 0 THEN 1 ELSE 0)]

\* e.stepper_end(shape, l)
operand_stepper_end(o, shp, l) ==
    operand_to_end(o, operand_stepper_begin(o, shp), l)

\* *st: the element at the operand's multi-index; undefined outside the
\* operand
operand_stepper_deref(i, o, st) ==
    IF \A j \in 1..Len(o.shape) : 0 <= st.idx[j] /\ st.idx[j] < o.shape[j]
    THEN operand_read(i, o, Dot(st.idx, Strides(o.shape)))
    ELSE operand_read(i, o, MaxSize)

\* xfunction::stepper_begin, stepper_end: build_stepper over m_e
stepper_begin(m_e, shp) ==
    [i \in OpIds |-> operand_stepper_begin(m_e[i], shp)]

stepper_end(m_e, shp, l) ==
    [i \in OpIds |-> operand_stepper_end(m_e[i], shp, l)]

\* xfunction_stepper::step(dim), step_back(dim)
stepper_step(m_e, m_st, dim) ==
    [i \in OpIds |-> operand_step(m_e[i], m_st[i], dim)]

\* a step_back that reaches the first sub-stepper only
stepper_step_back_first(m_e, m_st, dim) ==
    [i \in OpIds |-> IF i = 1 THEN operand_step_back(m_e[i], m_st[i], dim)
                     ELSE m_st[i]]

stepper_step_back(m_e, m_st, dim) ==
    [i \in OpIds |-> operand_step_back(m_e[i], m_st[i], dim)]

\* xfunction_stepper::step(dim, n), step_back(dim, n)
stepper_step_n(m_e, m_st, dim, n) ==
    [i \in OpIds |-> operand_step_n(m_e[i], m_st[i], dim, n)]

stepper_step_back_n(m_e, m_st, dim, n) ==
    [i \in OpIds |-> operand_step_back_n(m_e[i], m_st[i], dim, n)]

\* xfunction_stepper::reset, reset_back
stepper_reset(m_e, m_st, dim) ==
    [i \in OpIds |-> operand_reset(m_e[i], m_st[i], dim)]

stepper_reset_back(m_e, m_st, dim) ==
    [i \in OpIds |-> operand_reset_back(m_e[i], m_st[i], dim)]

\* xfunction_stepper::to_begin, to_end
stepper_to_begin(m_e, m_st) ==
    [i \in OpIds |-> operand_to_begin(m_e[i], m_st[i])]

stepper_to_end(m_e, m_st, l) ==
    [i \in OpIds |-> operand_to_end(m_e[i], m_st[i], l)]

\* xfunction_stepper::deref_impl
stepper_deref(m_e, m_st) ==
    functor([i \in OpIds |-> operand_stepper_deref(i, m_e[i], m_st[i])])

\* The fused steps of a sub-stepper move along the fastest axis of the
\* traversed shape, the last one; an operand of extent 1 along it, or
\* without it, stays put.
LeadingMoves(o) == Len(o.shape) > 0 /\ o.shape[Len(o.shape)] # 1

operand_advance_leading(o, st, n) ==
    IF LeadingMoves(o) THEN [st EXCEPT !.idx[Len(o.shape)] = @ + n] ELSE st

\* st.step_leading(): the element the sub-stepper stands at, and the
\* sub-stepper one element further
operand_step_leading(i, o, st) ==
    [value |-> operand_stepper_deref(i, o, st),
     st    |-> operand_advance_leading(o, st, 1)]

\* st.step_simd<T>(): the batch of the BatchWidth elements from the one the
\* sub-stepper stands at, and the sub-stepper one batch further
operand_step_simd(i, o, st) ==
    [value |-> [k \in 1..BatchWidth |->
                   operand_stepper_deref(i, o, operand_advance_leading(o, st, k - 1))],
     st    |-> operand_advance_leading(o, st, BatchWidth)]

\* m_f.simd_apply(batches...): the functor lane by lane
simd_apply(batches) ==
    [k \in 1..BatchWidth |-> functor([i \in OpIds |-> batches[i][k]])]

\* a step_leading that moves the first sub-stepper only
stepper_step_leading_first(m_e, m_st) ==
    [value |-> functor([i \in OpIds |->
                          operand_step_leading(i, m_e[i], m_st[i]).value]),
     m_st  |-> [i \in OpIds |->
                  IF i = 1 THEN operand_step_leading(i, m_e[i], m_st[i]).st
                  ELSE m_st[i]]]

\* xfunction_stepper::step_leading, step_leading_impl
stepper_step_leading(m_e, m_st) ==
    [value |-> functor([i \in OpIds |->
                          operand_step_leading(i, m_e[i], m_st[i]).value]),
     m_st  |-> [i \in OpIds |-> operand_step_leading(i, m_e[i], m_st[i]).st]]

\* xfunction_stepper::step_simd, step_simd_impl
stepper_step_simd(m_e, m_st) ==
    [value |-> simd_apply([i \in OpIds |->
                             operand_step_simd(i, m_e[i], m_st[i]).value]),
     m_st  |-> [i \in OpIds |-> operand_step_simd(i, m_e[i], m_st[i]).st]]

(***************************************************************************)
(* Batch eligibility: the static predicate has_simd_interface. A type pack *)
(* is described by what the metafunctions read from it.                    *)
(***************************************************************************)
\* an operand that is not a node: whether its value type has a batch type,
\* and what has_simd_interface reports for it
LeafTraits == [kind : {"leaf"}, value_simd : BOOLEAN, interface : BOOLEAN]

\* the type packs nested at most d deep: a node has a result type, a
\* functor that declares simd_apply for it or not, and its operands
RECURSIVE TraitTrees(_)
TraitTrees(d) ==
    IF d = 0 THEN LeafTraits
    ELSE LET sub == TraitTrees(d - 1)
         IN  sub \cup [kind : {"node"}, value_simd : BOOLEAN,
                       simd_apply : BOOLEAN, args : [OpIds -> sub]]

NodeTraits == {t \in TraitTrees(TraitDepth) : t.kind = "node"}

\* detail::has_simd_type<V>: V differs from xsimd::simd_type<V>
has_simd_type(t) == t.value_simd

\* detail::has_simd_apply<F, V>: F declares simd_apply for V
has_simd_apply(t) == t.simd_apply

\* xsimd_meta_getter::simd_arguments_exist
simd_arguments_exist(t) ==
    has_simd_type(t) /\ \A i \in OpIds : has_simd_type(t.args[i])

RECURSIVE has_simd_interface(_)

\* a use_xsimd that does not ask the operands for their interface
use_xsimd_shallow(t) ==
    /\ simd_arguments_exist(t)
    /\ has_simd_apply(t)

\* xsimd_meta_getter::use_xsimd
use_xsimd(t) ==
    /\ simd_arguments_exist(t)
    /\ has_simd_apply(t)
    /\ \A i \in OpIds : has_simd_interface(t.args[i])

\* has_simd_interface<E>: for an xfunction, its use_xsimd
has_simd_interface(t) ==
    IF t.kind = "leaf" THEN t.interface ELSE use_xsimd(t)

\* xsimd_meta_getter::simd_value_type: the batch type, or no type at all
simd_value_type(t) ==
    IF simd_arguments_exist(t) THEN "simd_type" ELSE "invalid_type"

\* a node over batch-capable containers with a batch-capable functor
CapableTraits ==
    [kind |-> "node", value_simd |-> TRUE, simd_apply |-> TRUE,
     args |-> [i \in OpIds |->
                  [kind |-> "leaf", value_simd |-> TRUE, interface |-> TRUE]]]

(***************************************************************************)
(* Threads that share the node.                                            *)
(***************************************************************************)
Threads == 1..NThreads

\* The steps of the calls a thread makes on a shared node, one step for
\* each access to the cache.
\* shape(): "if (!m_cache.is_initialized)"
needs_fill_always(cache) == TRUE

needs_fill(cache) == ~cache.is_initialized

\* a reset of the cached shape that already sets is_initialized
fill_reset_published(cache, m_e) ==
    [cache EXCEPT !.shape = Zeros(compute_dimension(m_e)), !.is_initialized = TRUE]

\* compute_cached_shape: "m_cache.shape = make_sequence(compute_dimension(), 0)"
fill_reset(cache, m_e) ==
    [cache EXCEPT !.shape = Zeros(compute_dimension(m_e))]

\* compute_cached_shape: broadcast_shape(m_cache.shape, false) reaches
\* operand i, which refines the cached shape in place
fill_operand(cache, m_e, i) ==
    LET r == operand_broadcast_shape(m_e[i], cache.shape)
    IN  [cache |-> [cache EXCEPT !.shape = r.shape], trivial |-> r.trivial]

\* compute_cached_shape: "m_cache.is_trivial = ..."
fill_trivial(cache, b) == [cache EXCEPT !.is_trivial = b]

\* compute_cached_shape: "m_cache.is_initialized = true"
fill_publish(cache) == [cache EXCEPT !.is_initialized = TRUE]

\* a thread outside any call
ParkedThread ==
    [pc |-> "idle", calls |-> 0, op |-> "none", i |-> 0, acc |-> TRUE,
     out |-> <<>>, res |-> [op |-> "none"]]

\* no thread is inside a call, no fill was started
Parked == [run |-> [t \in Threads |-> ParkedThread], fills |-> 0]

(***************************************************************************)
(* State.                                                                  *)
(***************************************************************************)
VARIABLES
    operands,     \* m_e: the operands of the node
    m_cache,      \* the shape cache: shape, is_trivial, is_initialized
    validation,   \* whether the build enables the index checks
    shape_calls,  \* how often shape() was entered, how often it called
                  \* each operand's broadcast_shape, and the shapes it
                  \* returned
    trv,          \* the live traversal object: none, a flat iterator or a
                  \* stepper
    ret,          \* the last call and what it returned
    traits,       \* the type pack the node is instantiated over
    threads       \* the threads that share the node: where each one is
                  \* in its call, and how many fills were started

vars == <<operands, m_cache, validation, shape_calls, trv, ret, traits, threads>>

\* the counts after the operands in inv have been called once more
Count(c, inv) ==
    [i \in OpIds |-> c[i] + Cardinality({k \in 1..Len(inv) : inv[k] = i})]

\* the index lists a caller passes to the node: one index per dimension,
\* in range or one past the largest extent
IndexArgs == [1..compute_dimension(operands) -> 0..MaxExtent]

\* the index lists a caller passes to operator(): any number of indices
AccessArgs == UNION {[1..n -> 0..MaxExtent] : n \in 0..MaxRank}

\* the flat indices a caller passes to data_element
FlatArgs == 0..MaxSize

\* the strides a consuming engine asks about
StrideArgs == {Strides(s) : s \in Shapes}

NoTraversal == [kind |-> "none"]

\* One call at a time: a call returns before the next one is made. A
\* traversal engine drives one traversal object at a time and calls the node
\* between traversals: the traversal objects read the operands only, so a
\* call of the node made during a traversal commutes with its steps.
Idle == ret.op = "none"

CanCallNode == Idle /\ trv.kind = "none"

Init ==
    /\ operands \in {t \in [OpIds -> Operands] : Compatible(t)}
    \* xfunction_cache_impl(): the shape is empty, is_initialized is false
    \* and is_trivial is left uninitialized
    /\ m_cache \in {[shape |-> <<>>, is_trivial |-> b, is_initialized |-> FALSE] :
                        b \in BOOLEAN}
    /\ validation \in BOOLEAN
    /\ shape_calls = [entered |-> 0, invoked |-> [i \in OpIds |-> 0],
                      returned |-> {}]
    /\ trv = NoTraversal
    /\ ret = [op |-> "none"]
    /\ traits = CapableTraits
    /\ threads = Parked

\* what a call that enters shape() n times does to the cache and the
\* counters
EnterShape(r, n) ==
    /\ shape_calls.entered + n <= MaxCalls
    /\ m_cache' = r.cache
    /\ shape_calls' = [entered |-> shape_calls.entered + n,
                       invoked |-> Count(shape_calls.invoked, r.invoked),
                       returned |-> IF n = 0 THEN shape_calls.returned
                                    ELSE shape_calls.returned \cup {r.cache.shape}]

CallShape ==
    /\ CanCallNode
    /\ LET r == shape(m_cache, operands)
       IN  /\ EnterShape(r, 1)
           /\ ret' = [op |-> "shape", value |-> r.value]
           /\ UNCHANGED <<traits, threads, operands, validation, trv>>

CallSize ==
    /\ CanCallNode
    /\ LET r == size(m_cache, operands)
       IN  /\ EnterShape(r, 1)
           /\ ret' = [op |-> "size", value |-> r.value]
           /\ UNCHANGED <<traits, threads, operands, validation, trv>>

CallDimension ==
    /\ CanCallNode
    /\ m_cache' = dimension(m_cache, operands).cache
    /\ ret' = [op |-> "dimension", value |-> dimension(m_cache, operands).value]
    /\ UNCHANGED <<traits, threads, operands, validation, shape_calls, trv>>

CallLayout ==
    /\ CanCallNode
    /\ ret' = [op |-> "layout", value |-> layout_impl(operands)]
    /\ UNCHANGED <<traits, threads, operands, m_cache, validation, shape_calls, trv>>

\* operator()(args...) with any number of indices; checks is how often the
\* call evaluated shape() for a check
CallAccess ==
    /\ CanCallNode
    /\ \E args \in AccessArgs :
           LET r == access_impl(m_cache, operands, validation, args)
           IN  /\ EnterShape(r, r.entered)
               /\ \/ /\ r.outcome = "error"
                     /\ ret' = [op |-> "access", args |-> args, outcome |-> "error",
                                checks |-> r.entered]
                  \/ \E v \in r.values :
                        ret' = [op |-> "access", args |-> args, outcome |-> "value",
                                checks |-> r.entered, value |-> v]
               /\ UNCHANGED <<traits, threads, operands, validation, trv>>

CallElement ==
    /\ CanCallNode
    /\ \E args \in IndexArgs :
           LET r == element_access_impl(m_cache, operands, validation, args)
           IN  /\ EnterShape(r, r.entered)
               /\ \/ /\ r.outcome = "error"
                     /\ ret' = [op |-> "element", args |-> args, outcome |-> "error"]
                  \/ \E v \in r.values :
                        ret' = [op |-> "element", args |-> args, outcome |-> "value",
                                value |-> v]
               /\ UNCHANGED <<traits, threads, operands, validation, trv>>

\* arguments(): a reference to the operand collection
CallArguments ==
    /\ CanCallNode
    /\ ret' = [op |-> "arguments", value |-> operands]
    /\ UNCHANGED <<traits, threads, operands, m_cache, validation, shape_calls, trv>>

\* the scalar conversion exists when only_scalar holds
CallConversion ==
    /\ CanCallNode
    /\ only_scalar(operands)
    /\ LET r == conversion(m_cache, operands, validation)
       IN  /\ EnterShape(r, r.entered)
           /\ \/ /\ r.outcome = "error"
                 /\ ret' = [op |-> "conversion", outcome |-> "error"]
              \/ \E v \in r.values :
                    ret' = [op |-> "conversion", outcome |-> "value", value |-> v]
           /\ UNCHANGED <<traits, threads, operands, validation, trv>>

CallUnchecked ==
    /\ CanCallNode
    /\ \E args \in IndexArgs :
           \E v \in unchecked_impl(operands, args) :
               /\ ret' = [op |-> "unchecked", args |-> args, value |-> v]
               /\ UNCHANGED <<traits, threads, operands, m_cache, validation, shape_calls, trv>>

CallDataElement ==
    /\ CanCallNode
    /\ \E k \in FlatArgs :
           \E v \in data_element_impl(operands, k) :
               /\ ret' = [op |-> "data_element", args |-> k, value |-> v]
               /\ UNCHANGED <<traits, threads, operands, m_cache, validation, shape_calls, trv>>

CallHasLinearAssign ==
    /\ CanCallNode
    /\ \E strides \in StrideArgs :
           /\ ret' = [op |-> "has_linear_assign", args |-> strides,
                      value |-> has_linear_assign(operands, strides)]
           /\ UNCHANGED <<traits, threads, operands, m_cache, validation, shape_calls, trv>>

\* broadcast_shape(out, reuse_cache) with an out of at least the node's rank
CallBroadcastShape ==
    /\ CanCallNode
    /\ \E out \in OutShapes, reuse_cache \in BOOLEAN :
           LET r == broadcast_shape(m_cache, operands, out, reuse_cache)
           IN  /\ Len(out) >= compute_dimension(operands)
               /\ ret' = [op |-> "broadcast_shape", args |-> out,
                          reuse_cache |-> reuse_cache,
                          outcome |-> IF r.ok THEN "value" ELSE "error",
                          shape |-> r.shape, value |-> r.result,
                          invoked |-> r.invoked]
               /\ UNCHANGED <<traits, threads, operands, m_cache, validation, shape_calls, trv>>

(***************************************************************************)
(* Flat iterator actions. net counts the elements the iterator was moved   *)
(* by since it was built.                                                  *)
(***************************************************************************)
\* the cursors stay within the bounds of the model
CursorsInBounds(m_it) == \A i \in OpIds : 0 <= m_it[i] /\ m_it[i] <= MaxSize

IteratorLive == Idle /\ trv.kind = "iterator"

MoveIterator(op, m_it, n) ==
    /\ IteratorLive
    /\ CursorsInBounds(m_it)
    /\ -MaxSize <= trv.net + n /\ trv.net + n <= MaxSize
    /\ trv' = [trv EXCEPT !.m_it = m_it, !.net = @ + n]
    /\ ret' = [op |-> op]
    /\ UNCHANGED <<traits, threads, operands, m_cache, validation, shape_calls>>

CallStorageBegin ==
    /\ CanCallNode
    /\ trv' = [kind |-> "iterator", from |-> "begin",
               m_it |-> storage_cbegin(operands), net |-> 0]
    /\ ret' = [op |-> "storage_begin"]
    /\ UNCHANGED <<traits, threads, operands, m_cache, validation, shape_calls>>

CallStorageEnd ==
    /\ CanCallNode
    /\ trv' = [kind |-> "iterator", from |-> "end",
               m_it |-> storage_cend(operands), net |-> 0]
    /\ ret' = [op |-> "storage_end"]
    /\ UNCHANGED <<traits, threads, operands, m_cache, validation, shape_calls>>

IteratorIncrement ==
    IteratorLive /\ MoveIterator("++", iterator_increment(operands, trv.m_it), 1)

IteratorDecrement ==
    IteratorLive /\ MoveIterator("--", iterator_decrement(operands, trv.m_it), -1)

IteratorAdd ==
    \E n \in 1..MaxStep :
        IteratorLive /\ MoveIterator("+=", iterator_add(operands, trv.m_it, n), n)

IteratorSubtract ==
    \E n \in 1..MaxStep :
        IteratorLive
        /\ MoveIterator("-=", iterator_subtract(operands, trv.m_it, n), -n)

IteratorDeref ==
    /\ IteratorLive
    /\ \E v \in iterator_deref(operands, trv.m_it) :
          ret' = [op |-> "*", value |-> v]
    /\ UNCHANGED <<traits, threads, operands, m_cache, validation, shape_calls, trv>>

\* the iterators the live one is compared with: the node's storage_begin()
\* and storage_end()
OtherIterators == {storage_cbegin(operands), storage_cend(operands)}

\* a - b of the live iterator and another one of the node, either way round
IteratorDistance ==
    /\ IteratorLive
    /\ \E other \in OtherIterators, swap \in BOOLEAN :
          LET a == IF swap THEN other ELSE trv.m_it
              b == IF swap THEN trv.m_it ELSE other
          IN  ret' = [op |-> "-", lhs |-> a, rhs |-> b,
                      value |-> iterator_minus(operands, a, b)]
    /\ UNCHANGED <<traits, threads, operands, m_cache, validation, shape_calls, trv>>

\* a == b and a < b of the live iterator and another one of the node
IteratorCompare ==
    /\ IteratorLive
    /\ \E other \in OtherIterators, swap \in BOOLEAN, op \in {"==", "<"} :
          LET a == IF swap THEN other ELSE trv.m_it
              b == IF swap THEN trv.m_it ELSE other
          IN  ret' = [op |-> op, lhs |-> a, rhs |-> b,
                      value |-> IF op = "==" THEN iterator_equal(operands, a, b)
                                ELSE iterator_less_than(operands, a, b)]
    /\ UNCHANGED <<traits, threads, operands, m_cache, validation, shape_calls, trv>>

(***************************************************************************)
(* Stepper actions. The stepper is built over the node's shape, which the  *)
(* caller has from shape(). pos is the multi-index the movements add up    *)
(* to; dim counts the axes from 0.                                         *)
(***************************************************************************)
StepperLive == Idle /\ trv.kind = "stepper"

Axes == 0..(Len(trv.shape) - 1)

\* the multi-index stays within the traversed shape or one past it
PosInBounds(pos) ==
    \A d \in 1..Len(pos) : 0 <= pos[d] /\ pos[d] <= trv.shape[d]

MoveStepper(op, m_st, pos) ==
    /\ StepperLive
    /\ PosInBounds(pos)
    /\ trv' = [trv EXCEPT !.m_st = m_st, !.pos = pos]
    /\ ret' = [op |-> op]
    /\ UNCHANGED <<traits, threads, operands, m_cache, validation, shape_calls>>

CallStepperBegin ==
    /\ CanCallNode
    /\ m_cache.is_initialized
    /\ trv' = [kind |-> "stepper", shape |-> m_cache.shape,
               m_st |-> stepper_begin(operands, m_cache.shape),
               pos |-> Zeros(Len(m_cache.shape))]
    /\ ret' = [op |-> "stepper_begin"]
    /\ UNCHANGED <<traits, threads, operands, m_cache, validation, shape_calls>>

CallStepperEnd ==
    /\ CanCallNode
    /\ \E l \in Layouts :
           /\ m_cache.is_initialized
           /\ trv' = [kind |-> "stepper", shape |-> m_cache.shape,
                      m_st |-> stepper_end(operands, m_cache.shape, l),
                      pos |-> EndIndex(m_cache.shape, l)]
           /\ ret' = [op |-> "stepper_end"]
           /\ UNCHANGED <<traits, threads, operands, m_cache, validation, shape_calls>>

StepperStep ==
    /\ StepperLive
    /\ \E dim \in Axes :
          MoveStepper("step", stepper_step(operands, trv.m_st, dim),
                      [trv.pos EXCEPT ![dim + 1] = @ + 1])

StepperStepBack ==
    /\ StepperLive
    /\ \E dim \in Axes :
          MoveStepper("step_back", stepper_step_back(operands, trv.m_st, dim),
                      [trv.pos EXCEPT ![dim + 1] = @ - 1])

StepperStepN ==
    /\ StepperLive
    /\ \E dim \in Axes, n \in 1..MaxStep :
          MoveStepper("step_n", stepper_step_n(operands, trv.m_st, dim, n),
                      [trv.pos EXCEPT ![dim + 1] = @ + n])

StepperStepBackN ==
    /\ StepperLive
    /\ \E dim \in Axes, n \in 1..MaxStep :
          MoveStepper("step_back_n",
                      stepper_step_back_n(operands, trv.m_st, dim, n),
                      [trv.pos EXCEPT ![dim + 1] = @ - n])

StepperReset ==
    /\ StepperLive
    /\ \E dim \in Axes :
          MoveStepper("reset", stepper_reset(operands, trv.m_st, dim),
                      [trv.pos EXCEPT ![dim + 1] = 0])

StepperResetBack ==
    /\ StepperLive
    /\ \E dim \in Axes :
          MoveStepper("reset_back", stepper_reset_back(operands, trv.m_st, dim),
                      [trv.pos EXCEPT ![dim + 1] = trv.shape[dim + 1] - 1])

StepperToBegin ==
    /\ StepperLive
    /\ MoveStepper("to_begin", stepper_to_begin(operands, trv.m_st),
                   Zeros(Len(trv.shape)))

StepperToEnd ==
    /\ StepperLive
    /\ \E l \in Layouts :
          MoveStepper("to_end", stepper_to_end(operands, trv.m_st, l),
                      EndIndex(trv.shape, l))

StepperDeref ==
    /\ StepperLive
    /\ \E v \in stepper_deref(operands, trv.m_st) :
          ret' = [op |-> "*", value |-> v]
    /\ UNCHANGED <<traits, threads, operands, m_cache, validation, shape_calls, trv>>

\* the multi-index n elements further along the fastest axis
AlongLeading(pos, n) ==
    IF Len(pos) = 0 THEN pos ELSE [pos EXCEPT ![Len(pos)] = @ + n]

\* step_leading(): one fused step; the value is returned with the move
StepperStepLeading ==
    /\ StepperLive
    /\ PosInBounds(AlongLeading(trv.pos, 1))
    /\ LET r == stepper_step_leading(operands, trv.m_st)
       IN  /\ trv' = [trv EXCEPT !.m_st = r.m_st, !.pos = AlongLeading(trv.pos, 1)]
           /\ \E v \in r.value : ret' = [op |-> "step_leading", value |-> v]
    /\ UNCHANGED <<traits, threads, operands, m_cache, validation, shape_calls>>

\* step_simd<T>(): exists for a batch-eligible node only
StepperStepSimd ==
    /\ StepperLive
    /\ has_simd_interface(traits)
    /\ PosInBounds(AlongLeading(trv.pos, BatchWidth))
    /\ LET r == stepper_step_simd(operands, trv.m_st)
       IN  /\ trv' = [trv EXCEPT !.m_st = r.m_st,
                                 !.pos = AlongLeading(trv.pos, BatchWidth)]
           /\ \E v \in [1..BatchWidth -> UNION {r.value[k] : k \in 1..BatchWidth}] :
                 /\ \A k \in 1..BatchWidth : v[k] \in r.value[k]
                 /\ ret' = [op |-> "step_simd", value |-> v]
    /\ UNCHANGED <<traits, threads, operands, m_cache, validation, shape_calls>>

\* the traversal object is destroyed
Discard ==
    /\ Idle
    /\ trv.kind # "none"
    /\ trv' = NoTraversal
    /\ UNCHANGED <<traits, threads, operands, m_cache, validation, shape_calls, ret>>

\* the caller takes the value the call returned
Return ==
    /\ ret.op # "none"
    /\ ret' = [op |-> "none"]
    /\ UNCHANGED <<traits, threads, operands, m_cache, validation, shape_calls, trv>>

NodeNext ==
    \/ CallShape
    \/ CallSize
    \/ CallDimension
    \/ CallLayout
    \/ CallArguments
    \/ CallAccess
    \/ CallElement
    \/ CallConversion
    \/ CallUnchecked
    \/ CallDataElement
    \/ CallHasLinearAssign
    \/ CallBroadcastShape
    \/ CallStorageBegin
    \/ CallStorageEnd
    \/ CallStepperBegin
    \/ CallStepperEnd

IteratorNext ==
    \/ IteratorIncrement
    \/ IteratorDecrement
    \/ IteratorAdd
    \/ IteratorSubtract
    \/ IteratorDeref
    \/ IteratorDistance
    \/ IteratorCompare

StepperNext ==
    \/ StepperStep
    \/ StepperStepBack
    \/ StepperStepN
    \/ StepperStepBackN
    \/ StepperReset
    \/ StepperResetBack
    \/ StepperToBegin
    \/ StepperToEnd
    \/ StepperDeref
    \/ StepperStepLeading
    \/ StepperStepSimd

Next ==
    \/ NodeNext
    \/ IteratorNext
    \/ StepperNext
    \/ Discard
    \/ Return

Spec == Init /\ [][Next]_vars

(***************************************************************************)
(* Threads sharing one node: each thread makes calls of shape(), size(),   *)
(* dimension() and broadcast_shape(out, true); the steps of different      *)
(* threads interleave between any two accesses to the cache.               *)
(***************************************************************************)
ThreadOps == {"shape", "size", "dimension", "broadcast_shape"}

ThreadInit ==
    /\ operands \in {t \in [OpIds -> Operands] :
                        Compatible(t) /\ \A i \in OpIds : ~t[i].scalar}
    /\ m_cache \in {[shape |-> <<>>, is_trivial |-> b, is_initialized |-> FALSE] :
                        b \in BOOLEAN}
    /\ validation = FALSE
    /\ shape_calls = [entered |-> 0, invoked |-> [i \in OpIds |-> 0],
                      returned |-> {}]
    /\ trv = NoTraversal
    /\ ret = [op |-> "none"]
    /\ traits = CapableTraits
    /\ threads = Parked

Rest == <<operands, validation, shape_calls, trv, ret, traits>>

At(t, pc) == threads.run[t].pc = pc

\* thread t goes on with the fields f of its record replaced
Goes(t, f) ==
    threads' = [threads EXCEPT !.run[t] = f @@ threads.run[t]]

\* thread t returns v from its call
Returns(t, v) ==
    threads' = [threads EXCEPT !.run[t] =
                   [ParkedThread EXCEPT !.calls = threads.run[t].calls + 1,
                                        !.res = [op |-> threads.run[t].op,
                                                 value |-> v]]]

ThreadBegin ==
    \E t \in Threads, op \in ThreadOps :
        /\ At(t, "idle")
        /\ threads.run[t].calls < ThreadCalls
        /\ Goes(t, [pc |-> CASE op \in {"shape", "size"} -> "shape_check"
                             [] op = "dimension" -> "dimension"
                             [] OTHER -> "broadcast_check",
                    op |-> op, res |-> [op |-> "none"],
                    out |-> IF op = "broadcast_shape"
                            THEN Zeros(compute_dimension(operands)) ELSE <<>>])
        /\ UNCHANGED <<m_cache, Rest>>

\* shape(): the check of is_initialized
ThreadShapeCheck ==
    \E t \in Threads :
        /\ At(t, "shape_check")
        /\ IF needs_fill(m_cache)
           THEN threads' = [threads EXCEPT !.run[t].pc = "fill_reset",
                                           !.fills = @ + 1]
           ELSE Goes(t, [pc |-> "shape_return"])
        /\ UNCHANGED <<m_cache, Rest>>

ThreadFillReset ==
    \E t \in Threads :
        /\ At(t, "fill_reset")
        /\ m_cache' = fill_reset(m_cache, operands)
        /\ Goes(t, [pc |-> "fill_operand", i |-> 1, acc |-> TRUE])
        /\ UNCHANGED Rest

ThreadFillOperand ==
    \E t \in Threads :
        /\ At(t, "fill_operand")
        /\ LET r == fill_operand(m_cache, operands, threads.run[t].i)
           IN  /\ m_cache' = r.cache
               /\ Goes(t, [pc  |-> IF threads.run[t].i = Arity
                                   THEN "fill_trivial" ELSE "fill_operand",
                           i   |-> threads.run[t].i + 1,
                           acc |-> r.trivial /\ threads.run[t].acc])
        /\ UNCHANGED Rest

ThreadFillTrivial ==
    \E t \in Threads :
        /\ At(t, "fill_trivial")
        /\ m_cache' = fill_trivial(m_cache, threads.run[t].acc)
        /\ Goes(t, [pc |-> "fill_publish", i |-> 0, acc |-> TRUE])
        /\ UNCHANGED Rest

ThreadFillPublish ==
    \E t \in Threads :
        /\ At(t, "fill_publish")
        /\ m_cache' = fill_publish(m_cache)
        /\ Goes(t, [pc |-> "shape_return"])
        /\ UNCHANGED Rest

\* shape() returns the cached shape, size() its product
ThreadShapeReturn ==
    \E t \in Threads :
        /\ At(t, "shape_return")
        /\ Returns(t, IF threads.run[t].op = "shape" THEN m_cache.shape
                      ELSE compute_size(m_cache.shape))
        /\ UNCHANGED <<m_cache, Rest>>

ThreadDimension ==
    \E t \in Threads :
        /\ At(t, "dimension")
        /\ m_cache' = dimension(m_cache, operands).cache
        /\ Returns(t, dimension(m_cache, operands).value)
        /\ UNCHANGED Rest

\* broadcast_shape(out, true): the check of is_initialized; without a
\* filled cache the operands are asked and the cache is not touched
ThreadBroadcastCheck ==
    \E t \in Threads :
        /\ At(t, "broadcast_check")
        /\ IF m_cache.is_initialized
           THEN Goes(t, [pc |-> "broadcast_copy"])
           ELSE LET r == broadcast_shape(m_cache, operands, threads.run[t].out, TRUE)
                IN  Returns(t, [shape |-> r.shape, trivial |-> r.result])
        /\ UNCHANGED <<m_cache, Rest>>

\* std::copy(m_cache.shape.cbegin(), m_cache.shape.cend(), shape.begin())
ThreadBroadcastCopy ==
    \E t \in Threads :
        /\ At(t, "broadcast_copy")
        /\ Goes(t, [pc |-> "broadcast_return",
                    out |-> broadcast_shape(m_cache, operands,
                                            threads.run[t].out, TRUE).shape])
        /\ UNCHANGED <<m_cache, Rest>>

\* return m_cache.is_trivial
ThreadBroadcastReturn ==
    \E t \in Threads :
        /\ At(t, "broadcast_return")
        /\ Returns(t, [shape |-> threads.run[t].out, trivial |-> m_cache.is_trivial])
        /\ UNCHANGED <<m_cache, Rest>>

ThreadNext ==
    \/ ThreadBegin
    \/ ThreadShapeCheck
    \/ ThreadFillReset
    \/ ThreadFillOperand
    \/ ThreadFillTrivial
    \/ ThreadFillPublish
    \/ ThreadShapeReturn
    \/ ThreadDimension
    \/ ThreadBroadcastCheck
    \/ ThreadBroadcastCopy
    \/ ThreadBroadcastReturn

ThreadSpec == ThreadInit /\ [][ThreadNext]_vars

(***************************************************************************)
(* Instantiations of the node over every type pack: has_simd_interface is  *)
(* evaluated when the node type is instantiated.                           *)
(***************************************************************************)
TraitsInit ==
    /\ traits \in NodeTraits
    /\ operands = [i \in OpIds |-> [shape |-> <<>>, scalar |-> FALSE]]
    /\ m_cache = [shape |-> <<>>, is_trivial |-> FALSE, is_initialized |-> FALSE]
    /\ validation = FALSE
    /\ shape_calls = [entered |-> 0, invoked |-> [i \in OpIds |-> 0],
                      returned |-> {}]
    /\ trv = NoTraversal
    /\ ret = [op |-> "none"]
    /\ threads = Parked

Instantiate ==
    /\ Idle
    /\ ret' = [op |-> "has_simd_interface", outcome |-> "value",
               value |-> has_simd_interface(traits),
               simd_value_type |-> simd_value_type(traits)]
    /\ UNCHANGED <<traits, threads, operands, m_cache, validation, shape_calls, trv>>

TraitsNext ==
    \/ Instantiate
    \/ Return

TraitsSpec == TraitsInit /\ [][TraitsNext]_vars

(***************************************************************************)
(* Reference definitions for the properties: the broadcast shape and the   *)
(* element a broadcast index selects, written without the node's folds.    *)
(***************************************************************************)
SetMax(S) == CHOOSE m \in S : \A x \in S : x <= m

MaxOperandRank(ops) == SetMax({Len(ops[i].shape) : i \in OpIds})

\* the extent of operand o along dimension k of a shape of rank r: 1 for a
\* leading dimension the operand does not have
PaddedExtent(o, k, r) ==
    IF k <= r - Len(o.shape) THEN 1 ELSE o.shape[k - (r - Len(o.shape))]

PaddedShape(o, r) == [k \in 1..r |-> PaddedExtent(o, k, r)]

BroadcastOf(ops) ==
    [k \in 1..MaxOperandRank(ops) |->
        SetMax({PaddedExtent(ops[i], k, MaxOperandRank(ops)) : i \in OpIds})]

InShape(idx, shp) ==
    Len(idx) = Len(shp) /\ \A k \in 1..Len(shp) : 0 <= idx[k] /\ idx[k] < shp[k]

\* the position of multi-index idx in the row-major order of shape shp
RECURSIVE RowMajorRank(_, _, _, _)
RowMajorRank(idx, shp, k, acc) ==
    IF k > Len(shp) THEN acc
    ELSE RowMajorRank(idx, shp, k + 1, acc * shp[k] + idx[k])

\* the element of operand i the node's index idx selects: the trailing
\* indices, with 0 along each dimension of extent 1
SelectedElement(i, o, idx) ==
    LET off == Len(idx) - Len(o.shape)
        own == [j \in 1..Len(o.shape) |->
                   IF o.shape[j] = 1 THEN 0 ELSE idx[j + off]]
    IN  Value(i, RowMajorRank(own, o.shape, 1, 0))

RECURSIVE SumFrom(_, _)
SumFrom(f, i) == IF i > Arity THEN 0 ELSE f[i] + SumFrom(f, i + 1)

\* the functor applied to the elements idx selects
ExpectedAt(ops, idx) ==
    SumFrom([i \in OpIds |-> SelectedElement(i, ops[i], idx)], 1)

(***************************************************************************)
(* Properties.                                                             *)
(***************************************************************************)
\* C1: the cached shape and the shape shape() returns are the broadcast
\* shape of the operands, and the checked access at an index inside it
\* returns the functor applied to the element of each operand the
\* broadcast-adjusted index selects.
C1_ShapeAndAccess ==
    /\ m_cache.is_initialized => m_cache.shape = BroadcastOf(operands)
    /\ ret.op = "shape" => ret.value = BroadcastOf(operands)
    /\ (ret.op = "access" /\ InShape(ret.args, BroadcastOf(operands)))
          => (ret.outcome = "value" /\ ret.value = ExpectedAt(operands, ret.args))

\* a lower-rank operand is stretched along axis 0: [2,2] + [2] at (1,1)
C1_Witness ==
    /\ operands[1].shape = <<2, 2>>
    /\ operands[2].shape = <<2>>
    /\ ret.op = "access"
    /\ ret.args = <<1, 1>>
    /\ ret.outcome = "value"
    /\ ret.value = Value(1, 3) + Value(2, 1)
    /\ m_cache.shape = <<2, 2>>

\* C2: however often shape() has been entered, it has called each operand's
\* broadcast_shape once in total, and every call returned the same shape.
C2_ShapeMemoized ==
    shape_calls.entered >= 1 =>
        /\ \A i \in OpIds : shape_calls.invoked[i] = 1
        /\ shape_calls.returned = {m_cache.shape}
        /\ m_cache.is_initialized

\* shape() was called twice in a row
C2_Witness ==
    /\ shape_calls.entered = 2
    /\ ret.op = "shape"
    /\ \A i \in OpIds : shape_calls.invoked[i] = 1

C5_DimensionIsMaxRank ==
    /\ dimension(m_cache, operands).value = MaxOperandRank(operands)
    /\ ret.op = "dimension" => ret.value = MaxOperandRank(operands)
    /\ ret.op = "shape" => Len(ret.value) = dimension(m_cache, operands).value
    /\ m_cache.is_initialized => Len(m_cache.shape) = MaxOperandRank(operands)

\* dimension() called after the fill, on operands of different ranks
C5_Witness ==
    /\ ret.op = "dimension"
    /\ m_cache.is_initialized
    /\ ret.value = 2
    /\ Len(operands[1].shape) = 1

\* C6: broadcast_shape(out, true) on a filled cache copies the cached shape
\* to the front of out, returns the cached is_trivial and calls no operand;
\* in every other case the operands are called, in order.
C6_BroadcastShapeReuse ==
    ret.op = "broadcast_shape" =>
        IF ret.reuse_cache /\ m_cache.is_initialized
        THEN /\ ret.invoked = <<>>
             /\ ret.value = m_cache.is_trivial
             /\ SubSeq(ret.shape, 1, Len(m_cache.shape)) = m_cache.shape
             /\ \A k \in (Len(m_cache.shape) + 1)..Len(ret.args) :
                   ret.shape[k] = ret.args[k]
             /\ Len(ret.shape) = Len(ret.args)
        ELSE /\ ret.invoked # <<>>
             /\ ret.outcome = "value" => ret.invoked = [k \in 1..Arity |-> k]

\* the cached path was taken with a fresh out
C6_Witness ==
    /\ ret.op = "broadcast_shape"
    /\ ret.reuse_cache
    /\ m_cache.is_initialized
    /\ ret.args = <<0, 0>>
    /\ ret.shape = <<2, 2>>
    /\ ret.invoked = <<>>

\* C7: once the cache is filled no step changes it, and no step calls the
\* operands from shape() again: the cache is written once.
C7_CacheWrittenOnce ==
    [][m_cache.is_initialized =>
          /\ m_cache' = m_cache
          /\ shape_calls'.invoked = shape_calls.invoked]_vars

\* a stepper is driven over a node whose cache is filled
C7_Witness ==
    /\ m_cache.is_initialized
    /\ m_cache.shape = <<2, 2>>
    /\ trv.kind = "stepper"
    /\ ret.op = "*"

\* what each operand's own storage-begin iterator reads after it was advanced
\* by n on its own
OwnIteratorRead(ops, n) ==
    [i \in OpIds |->
        operand_read(i, ops[i],
                     cursor_advance(ops[i], operand_linear_begin(ops[i]), n))]

\* where the flat iterator's cursors were when it was built
BuiltAt(ops, from) ==
    IF from = "begin" THEN storage_cbegin(ops) ELSE storage_cend(ops)

\* C8: every movement of the flat iterator (++, --, += n, -= n) moves every
\* operand cursor by the same delta (the scalar wrapper's placeholder stays
\* put), so after any interleaving of movements that nets to n each cursor is
\* where it was built plus n; the iterator built by storage_begin() and moved
\* by a net n in [0, size()) dereferences to the functor of what each
\* operand's own begin iterator advanced by n reads, which is the sum of the
\* n-th elements when every operand has n elements.
C8_IteratorLockstep ==
    trv.kind = "iterator" =>
        /\ \A i \in OpIds :
              trv.m_it[i] = cursor_advance(operands[i],
                                           BuiltAt(operands, trv.from)[i], trv.net)
        /\ (trv.from = "begin" /\ 0 <= trv.net
                /\ trv.net < compute_size(BroadcastOf(operands))) =>
              /\ iterator_deref(operands, trv.m_it)
                     = functor(OwnIteratorRead(operands, trv.net))
              /\ ret.op = "*" => ret.value \in functor(OwnIteratorRead(operands, trv.net))
              /\ (\A i \in OpIds : operands[i].scalar
                                      \/ trv.net < compute_size(operands[i].shape)) =>
                    iterator_deref(operands, trv.m_it)
                        = {SumFrom([i \in OpIds |->
                                      Value(i, IF operands[i].scalar THEN 0
                                               ELSE trv.net)], 1)}

\* the iterator from storage_begin() of two 2x2 operands stands at element 3
\* and was dereferenced
C8_Witness ==
    /\ trv.kind = "iterator" /\ trv.from = "begin" /\ trv.net = 3
    /\ \A i \in OpIds : operands[i] = [shape |-> <<2, 2>>, scalar |-> FALSE]
    /\ ret.op = "*"
    /\ ret.value = Value(1, 3) + Value(2, 3)

\* the flat iterator built by storage_begin() and advanced to the position
\* of multi-index pos in the row-major order of shape shp
IteratorAt(ops, shp, pos) ==
    iterator_add(ops, storage_cbegin(ops), RowMajorRank(pos, shp, 1, 0))

\* no operand is stretched: it is the scalar wrapper, or its shape padded
\* with leading 1s is the node's shape
Unstretched(ops, shp) ==
    \A i \in OpIds : ops[i].scalar \/ PaddedShape(ops[i], Len(shp)) = shp

\* C9 as stated: for every node, nodes with a stretched or lower-rank operand
\* included, the stepper standing at the n-th multi-index of the traversal
\* order dereferences to what the flat iterator from storage_begin() advanced
\* by n dereferences to.
C9_StepperEqualsIterator ==
    (trv.kind = "stepper" /\ InShape(trv.pos, trv.shape)) =>
        stepper_deref(operands, trv.m_st)
            = iterator_deref(operands, IteratorAt(operands, trv.shape, trv.pos))

\* C9 amended: when no operand is stretched (each is the scalar wrapper or
\* has the node's shape up to leading 1s), the stepper standing at the n-th
\* multi-index of the row-major order dereferences to the one value the flat
\* iterator from storage_begin() advanced by n dereferences to, and size()
\* advances take that iterator to storage_end().
C9_StepperEqualsIteratorUnstretched ==
    (trv.kind = "stepper" /\ Unstretched(operands, trv.shape)) =>
        /\ iterator_add(operands, storage_cbegin(operands), compute_size(trv.shape))
               = storage_cend(operands)
        /\ InShape(trv.pos, trv.shape) =>
              /\ stepper_deref(operands, trv.m_st)
                     = iterator_deref(operands,
                                      IteratorAt(operands, trv.shape, trv.pos))
              /\ stepper_deref(operands, trv.m_st)
                     = {ExpectedAt(operands, trv.pos)}

\* the stepper over a scalar wrapper and a 2x2 operand stands at the last
\* element and was dereferenced
C9_Witness ==
    /\ trv.kind = "stepper" /\ trv.pos = <<1, 1>>
    /\ operands[1] = [shape |-> <<>>, scalar |-> TRUE]
    /\ operands[2] = [shape |-> <<2, 2>>, scalar |-> FALSE]
    /\ ret.op = "*"
    /\ ret.value = Value(1, 0) + Value(2, 3)

\* the multi-index of operand o that the node's multi-index pos resolves to:
\* the trailing axes, with 0 along each axis of extent 1
Projection(o, pos) ==
    [j \in 1..Len(o.shape) |->
        IF o.shape[j] = 1 THEN 0 ELSE pos[j + Len(pos) - Len(o.shape)]]

\* C10: every stepper operation reaches every operand's sub-stepper with the
\* same arguments and an operand of extent 1 along the axis stays put, so
\* each sub-stepper stands at the operand's resolution of the multi-index the
\* operations add up to; while that multi-index is inside the node's shape,
\* dereferencing the stepper yields the one value the checked access at it
\* yields.
C10_StepperForwarding ==
    trv.kind = "stepper" =>
        /\ \A i \in OpIds :
              /\ trv.m_st[i].idx = Projection(operands[i], trv.pos)
              /\ \A j \in 1..Len(operands[i].shape) :
                    operands[i].shape[j] = 1 => trv.m_st[i].idx[j] = 0
        /\ InShape(trv.pos, trv.shape) =>
              /\ stepper_deref(operands, trv.m_st) = {ExpectedAt(operands, trv.pos)}
              /\ access_impl(m_cache, operands, validation, trv.pos).outcome = "value"
              /\ stepper_deref(operands, trv.m_st)
                     = access_impl(m_cache, operands, validation, trv.pos).values
              /\ ret.op = "*" => ret.value = ExpectedAt(operands, trv.pos)

\* the stepper over a 2x1 and a 2x2 operand was moved to (1, 1) by a step
\* back and then dereferenced: the first operand stands at its element 1
C10_Witness ==
    /\ trv.kind = "stepper" /\ trv.pos = <<1, 1>>
    /\ operands[1] = [shape |-> <<2, 1>>, scalar |-> FALSE]
    /\ operands[2] = [shape |-> <<2, 2>>, scalar |-> FALSE]
    /\ trv.m_st[1].idx = <<1, 0>>
    /\ ret.op = "*"
    /\ ret.value = Value(1, 1) + Value(2, 3)

\* BatchWidth consecutive step_leading calls: the values they return and
\* where they leave the sub-steppers
RECURSIVE LeadingRun(_, _, _)
LeadingRun(ops, m_st, n) ==
    IF n = 0 THEN [value |-> <<>>, m_st |-> m_st]
    ELSE LET r == stepper_step_leading(ops, m_st)
             rest == LeadingRun(ops, r.m_st, n - 1)
         IN  [value |-> <<r.value>> \o rest.value, m_st |-> rest.m_st]

\* the n elements from pos along the fastest axis are inside shape shp
RowHolds(pos, shp, n) ==
    /\ InShape(pos, shp)
    /\ Len(shp) = 0 \/ pos[Len(pos)] + n <= shp[Len(shp)]

AllRankZero(ops) == \A i \in OpIds : ops[i].shape = <<>>

\* C12: a node all of whose operands have rank 0 has the empty shape,
\* dimension 0 and size 1, and its scalar conversion, which exists when
\* every operand is the scalar wrapper, is the checked access with no index
\* and returns the functor of the operands' single values.
C12_RankZeroNode ==
    AllRankZero(operands) =>
        /\ m_cache.is_initialized => m_cache.shape = <<>>
        /\ ret.op = "shape" => ret.value = <<>>
        /\ ret.op = "dimension" => ret.value = 0
        /\ ret.op = "size" => ret.value = 1
        /\ only_scalar(operands) =>
              /\ conversion(m_cache, operands, validation).outcome = "value"
              /\ conversion(m_cache, operands, validation).values
                     = {SumFrom([i \in OpIds |-> Value(i, 0)], 1)}
        /\ ret.op = "conversion" =>
              /\ ret.outcome = "value"
              /\ ret.value = SumFrom([i \in OpIds |-> Value(i, 0)], 1)

\* a node over two scalar wrappers was converted to its value
C12_Witness ==
    /\ only_scalar(operands)
    /\ ret.op = "conversion"
    /\ ret.outcome = "value"
    /\ ret.value = Value(1, 0) + Value(2, 0)

Warm == m_cache.is_initialized /\ threads.fills = 1

\* what a call of the node returns
ThreadExpected(ops, op) ==
    CASE op = "shape" -> BroadcastOf(ops)
      [] op = "size" -> compute_size(BroadcastOf(ops))
      [] op = "dimension" -> MaxOperandRank(ops)
      [] OTHER -> [shape   |-> BroadcastOf(ops),
                   trivial |-> \A i \in OpIds : ops[i].shape = BroadcastOf(ops)]

\* C14: once one thread has filled the cache, no step of any thread's
\* shape(), size(), dimension() or broadcast_shape(out, true) call writes
\* the cache or starts a fill, however the calls interleave, and every call
\* that returns returns the node's shape, size, rank, or shape and
\* triviality flag.
C14_WarmCacheReadOnly ==
    [][Warm =>
          /\ m_cache' = m_cache
          /\ threads'.fills = threads.fills
          /\ \A t \in Threads :
                threads'.run[t].calls # threads.run[t].calls =>
                    threads'.run[t].res.value
                        = ThreadExpected(operands, threads.run[t].op)]_vars

\* after the warm-up by thread 1, thread 1 is inside a second shape() call
\* while thread 2 is inside broadcast_shape(out, true)
C14_Witness ==
    /\ Warm
    /\ threads.run[1].calls = 1 /\ threads.run[1].op = "shape"
    /\ At(1, "shape_return")
    /\ At(2, "broadcast_return")
    /\ threads.run[2].out = <<2, 2>>

\* C15: nothing orders the first fills of two threads: the cache can be
\* marked initialized while its shape is not the broadcast shape, and
\* whenever it is, two fills were started and a thread that passed the
\* is_initialized check before the other one published is re-assigning the
\* shape.
C15_FirstTouchRace ==
    (m_cache.is_initialized /\ m_cache.shape # BroadcastOf(operands)) =>
        /\ threads.fills >= 2
        /\ \E t \in Threads : At(t, "fill_operand")

\* one thread published its fill, then the other one reset the cached
\* shape, and the first one returned the zeros from shape()
C15_Witness ==
    /\ BroadcastOf(operands) = <<2, 2>>
    /\ m_cache.is_initialized
    /\ m_cache.shape = <<0, 0>>
    /\ \E t \in Threads, u \in Threads :
          /\ t # u
          /\ threads.run[t].res = [op |-> "shape", value |-> <<0, 0>>]
          /\ At(u, "fill_operand")

\* whether an operand reports the batch-capable interface: a container or
\* scalar says so itself, a nested node when it meets the three conditions
\* in turn
RECURSIVE ReportsBatchInterface(_)
ReportsBatchInterface(t) ==
    IF t.kind = "leaf" THEN t.interface
    ELSE /\ t.value_simd /\ \A i \in OpIds : t.args[i].value_simd
         /\ t.simd_apply
         /\ \A i \in OpIds : ReportsBatchInterface(t.args[i])

\* C16: has_simd_interface of a node is true exactly when (a) the result
\* type and every operand's value type have a batch type, (b) the functor
\* declares simd_apply for the result type and (c) every operand reports
\* the batch-capable interface, a nested node only if its own operands do;
\* otherwise it is false, and evaluating it never is an error.
C16_BatchEligibility ==
    ret.op = "has_simd_interface" =>
        /\ ret.outcome = "value"
        /\ ret.value <=>
              /\ traits.value_simd /\ \A i \in OpIds : traits.args[i].value_simd
              /\ traits.simd_apply
              /\ \A i \in OpIds : ReportsBatchInterface(traits.args[i])
        /\ \A i \in OpIds :
              (ret.value /\ traits.args[i].kind = "node") =>
                  \A j \in OpIds : ReportsBatchInterface(traits.args[i].args[j])

\* a node whose types and functor are batch-capable reports no batch
\* capability because an operand of its nested first operand has none
C16_Witness ==
    /\ ret.op = "has_simd_interface"
    /\ ret.value = FALSE
    /\ traits.value_simd /\ traits.simd_apply
    /\ \A i \in OpIds : traits.args[i].value_simd
    /\ traits.args[1].kind = "node"
    /\ traits.args[1].value_simd /\ traits.args[1].simd_apply
    /\ \A j \in OpIds : traits.args[1].args[j].value_simd
    /\ ~traits.args[1].args[1].interface
    /\ \A i \in OpIds : i # 1 => ReportsBatchInterface(traits.args[i])

\* C17: a has_linear_assign(strides) call returns true exactly when every
\* operand's own has_linear_assign(strides) is true, whatever the operands
\* answer, and it changes nothing of the node: not the cache, not the
\* operands, not a traversal object.
C17_LinearAssignIsConjunction ==
    [][(ret'.op = "has_linear_assign" /\ ret.op # "has_linear_assign") =>
          /\ ret'.value <=>
                \A i \in OpIds : operand_has_linear_assign(operands[i], ret'.args)
          /\ UNCHANGED <<operands, m_cache, validation, shape_calls, trv,
                         traits, threads>>]_vars

\* has_linear_assign returned false although the first operand can be
\* assigned linearly with the strides: the second one cannot
C17_Witness ==
    /\ ret.op = "has_linear_assign"
    /\ ret.value = FALSE
    /\ operand_has_linear_assign(operands[1], ret.args)
    /\ ~operand_has_linear_assign(operands[2], ret.args)

\* what the operands from i on answer when each one is asked once, in
\* operand order, about the shape the operands before it left
RECURSIVE OperandAnswers(_, _, _)
OperandAnswers(ops, out, i) ==
    IF i > Arity THEN <<>>
    ELSE LET r == operand_broadcast_shape(ops[i], out)
         IN  <<r.trivial>> \o OperandAnswers(ops, r.shape, i + 1)

\* C18: a broadcast_shape call that recomputes (reuse_cache false, or the
\* cache not initialized) calls every operand's broadcast_shape(out) once,
\* in operand order, also after an operand has answered false, and returns
\* the conjunction of all the answers.
C18_BroadcastShapeCallsAll ==
    (/\ ret.op = "broadcast_shape"
     /\ ret.outcome = "value"
     /\ ~(m_cache.is_initialized /\ ret.reuse_cache)) =>
        /\ ret.invoked = [k \in 1..Arity |-> k]
        /\ ret.value <=>
              \A k \in 1..Arity : OperandAnswers(operands, ret.args, 1)[k]

\* the first operand answered false and the second one was still called
C18_Witness ==
    /\ ret.op = "broadcast_shape"
    /\ ~ret.reuse_cache
    /\ ret.args = <<2, 2>>
    /\ operands[1].shape = <<2, 1>>
    /\ ~OperandAnswers(operands, ret.args, 1)[1]
    /\ OperandAnswers(operands, ret.args, 1)[2]
    /\ ret.invoked = <<1, 2>>
    /\ ret.value = FALSE

\* the distances of the cursors of lhs and rhs, operand by operand
CursorDistances(lhs, rhs) == {lhs[i] - rhs[i] : i \in OpIds}

\* C19: for two flat iterators a and b of a node, a - b is the maximum over
\* the operands of the distance of a's cursor from b's, for every pair of
\* positions, a before b included, so that a - b = -(b - a).
C19_DistanceIsMax ==
    ret.op = "-" =>
        /\ ret.value = SetMax(CursorDistances(ret.lhs, ret.rhs))
        /\ ret.value = -iterator_minus(operands, ret.rhs, ret.lhs)

\* storage_begin() - storage_end() of a node over two operands of shape 2
\* was computed as 0
C19_Witness ==
    /\ ret.op = "-"
    /\ \A i \in OpIds : operands[i] = [shape |-> <<2>>, scalar |-> FALSE]
    /\ ret.lhs = <<0, 0>>
    /\ ret.rhs = <<2, 2>>
    /\ ret.value = 0

\* C20: a == b and a < b of two flat iterators of a node are the comparison
\* of one cursor, the one of the first operand that is not the scalar
\* wrapper, whatever the other cursors are; when every operand is the scalar
\* wrapper the first operand's placeholders are compared, and a == b holds.
C20_ComparesReferenceCursor ==
    LET ref == IF \A i \in OpIds : operands[i].scalar THEN 1
               ELSE CHOOSE i \in OpIds :
                        /\ ~operands[i].scalar
                        /\ \A j \in 1..(i - 1) : operands[j].scalar
    IN  /\ ret.op = "==" =>
              /\ ret.value <=> ret.lhs[ref] = ret.rhs[ref]
              /\ (\A i \in OpIds : operands[i].scalar) => ret.value
        /\ ret.op = "<" => (ret.value <=> ret.lhs[ref] < ret.rhs[ref])

\* storage_begin() moved by 2 compares equal to storage_end() on the first
\* operand's cursor although the second operand's cursors differ
C20_Witness ==
    /\ ret.op = "=="
    /\ ret.value = TRUE
    /\ operands[1] = [shape |-> <<2>>, scalar |-> FALSE]
    /\ operands[2] = [shape |-> <<2, 2>>, scalar |-> FALSE]
    /\ ret.lhs = <<2, 2>>
    /\ ret.rhs = <<2, 4>>

\* C21: on a node whose cache is initialized, broadcast_shape(out, true)
\* leaves out with the same contents and returns the same boolean as
\* broadcast_shape(out, false) on an identical copy of out, for every out of
\* at least the node's rank, fresh or partially resolved.
C21_CachedPathEqualsRecompute ==
    (/\ ret.op = "broadcast_shape"
     /\ ret.reuse_cache
     /\ m_cache.is_initialized) =>
        LET r == broadcast_shape(m_cache, operands, ret.args, FALSE)
        IN  /\ ret.outcome = (IF r.ok THEN "value" ELSE "error")
            /\ ret.shape = r.shape
            /\ ret.value = r.result

\* the cached path wrote the node's shape 2 to the front of a fresh out of
\* rank 2 and reported a trivial broadcast
C21_Witness ==
    /\ ret.op = "broadcast_shape"
    /\ ret.reuse_cache
    /\ m_cache.is_initialized
    /\ m_cache.shape = <<2>>
    /\ ret.args = <<0, 0>>
    /\ ret.shape = <<2, 0>>
    /\ ret.value = TRUE
    /\ broadcast_shape(m_cache, operands, ret.args, FALSE).shape = <<0, 2>>
    /\ broadcast_shape(m_cache, operands, ret.args, FALSE).result = FALSE

\* the calls that may write the cache: shape(), size(), and in a
\* validation-enabled build the checked accesses
CacheWriters ==
    {"shape", "size"} \cup
    (IF validation THEN {"access", "element", "conversion"} ELSE {})

\* C22: a step that writes is_initialized, the cached shape or is_trivial is
\* a call of shape(), of size(), or, in a validation-enabled build, of a
\* checked access or element(); broadcast_shape with either flag,
\* unchecked(), data_element(), has_linear_assign(), layout(), arguments()
\* and every step of a flat iterator or a stepper leave the cache as it is,
\* and no step changes the operand collection.
C22_OnlyShapeWritesCache ==
    [][/\ operands' = operands
       /\ m_cache' # m_cache => ret'.op \in CacheWriters
       /\ ret'.op \in {"broadcast_shape", "unchecked", "data_element",
                       "has_linear_assign", "layout", "arguments"}
              => m_cache' = m_cache
       /\ trv' # trv => m_cache' = m_cache]_vars

\* broadcast_shape(out, true) was called on a node whose cache was never
\* filled, it recomputed, and the cache is still not initialized
C22_Witness ==
    /\ ret.op = "broadcast_shape"
    /\ ret.reuse_cache
    /\ ret.invoked = <<1, 2>>
    /\ ret.shape = <<2, 2>>
    /\ ~m_cache.is_initialized
    /\ m_cache.shape = <<>>
    /\ shape_calls.entered = 0

====
